---- MODULE Spec2Model ----
(***************************************************************************)
(* xdgpspconf: discovery of configuration locations (FsDisc, ConfDisc),    *)
(* reading and writing of configuration files (parse_rc, write_rc).        *)
(*                                                                         *)
(* A path is a record [parts, suffix]: parts are the components of an      *)
(* absolute path, the last one without its suffix; suffix is               *)
(* pathlib's Path.suffix ("" when the name has none, as for ".testrc").    *)
(* An optional value (None or a value) is a sequence of length 0 or 1.     *)
(***************************************************************************)
EXTENDS Integers, Sequences, FiniteSets, TLC

VARIABLES
    platform,   \* sys.platform: "linux" or "win32"
    env,        \* os.environ: variable name -> optional value
    fs,         \* regular files: path -> content
    dirs,       \* existing directories
    perm,       \* what os.access grants: [nr, nw] regions without read, write
    shipped,    \* FsDisc.shipped: [t |-> "list" | "none" | "path", v |-> ...]
    permargs,   \* FsDisc.permargs: optional mode given at construction
    pc,         \* "idle": the caller is between calls; "loop": a call is in its
                \* loop; "done": a call returned
    ret,        \* the last call: operation, arguments, outcome (in a loop: locals)
    writes      \* the number of calls that wrote or tried to write

vars == <<platform, env, fs, dirs, perm, shipped, permargs, pc, ret, writes>>

---------------------------------------------------------------------------
(* pathlib *)

None == <<>>
Some(x) == <<x>>

P(parts) == [parts |-> parts, suffix |-> ""]
F(parts, suffix) == [parts |-> parts, suffix |-> suffix]

\* Path.__truediv__ on a directory
Child(d, name) == [parts |-> Append(d.parts, name), suffix |-> ""]
ChildF(d, name, suffix) == [parts |-> Append(d.parts, name), suffix |-> suffix]

\* Path.with_suffix: the suffix of the last component is replaced
WithSuffix(p, ext) == [p EXCEPT !.suffix = ext]

\* Path.parent: the root is its own parent
Parent(p) ==
    IF p.parts = <<>> THEN p
    ELSE [parts |-> SubSeq(p.parts, 1, Len(p.parts) - 1), suffix |-> ""]

\* Path.name == n + s
NameIs(p, n, s) ==
    /\ p.parts # <<>>
    /\ p.parts[Len(p.parts)] = n
    /\ p.suffix = s

Root == P(<<>>)

SeqToSet(s) == { s[i] : i \in 1..Len(s) }

\* reversed(s)
Reverse(s) == [i \in 1..Len(s) |-> s[Len(s) + 1 - i]]

RECURSIVE Concat(_)
Concat(ss) == IF ss = <<>> THEN <<>> ELSE Head(ss) \o Concat(Tail(ss))

---------------------------------------------------------------------------
(* The project and the machine it runs on *)

project == "test"
PROJECT == "TEST"

HomePosix == P(<<"home", "u">>)
HomeWin == P(<<"Users", "u">>)
Cwd == P(<<"w", "pkg", "sub">>)
PkgDir == P(<<"w", "pkg">>)
ProjDir == P(<<"w">>)
ShippedFile == F(<<"w", "pkg", "__init__">>, ".py")

\* xdg.yml, base 'config'
XDG_config ==
    [posix |-> [var |-> "XDG_CONFIG_HOME", dirs |-> Some("XDG_CONFIG_DIRS"),
                root |-> << P(<<"etc", "xdg">>), P(<<"etc">>) >>,
                default |-> << <<".config">> >>],
     win |-> [var |-> "APPDATA", dirs |-> None,
              root |-> <<>>,
              default |-> << <<"AppData", "Roaming">> >>]]

CONF_EXT == <<".yml", ".toml", ".conf">>

W_OK == 2
R_OK == 4

IsWin == platform = "win32"

---------------------------------------------------------------------------
(* xdgpspconf.utils *)

\* os.access is decided per top-level directory of the path
Region(p) == IF p.parts = <<>> THEN "/" ELSE p.parts[1]

\* fs_perm(path, mode=4): the mode is granted on the path
fs_perm(p, mode) ==
    LET m == IF mode = None THEN R_OK ELSE mode[1]
    IN  /\ (m = R_OK => Region(p) \notin perm.nr)
        /\ (m = W_OK => Region(p) \notin perm.nw)

\* is_mount: the filesystem root is a mount point
is_mount(d) == d = Root

is_file(p) == p \in DOMAIN fs

---------------------------------------------------------------------------
(* FsDisc: base.py *)

\* FsDisc.__init__: self.shipped
InitShipped(arg) ==
    IF arg # None THEN [t |-> "list", v |-> <<Parent(arg[1])>>]
    ELSE [t |-> "list", v |-> <<>>]

\* FsDisc.trace_ancestors(child_dir): the loop body from child_dir upward
RECURSIVE FsTrace(_)
FsTrace(d) ==
    IF is_mount(d) THEN <<>>
    ELSE LET init == IF is_file(ChildF(d, "__init__", ".py")) THEN <<d>> ELSE <<>>
         IN  IF is_file(ChildF(d, "setup", ".cfg")) \/ is_file(ChildF(d, "setup", ".py"))
             THEN Append(init, d)
             ELSE init \o FsTrace(Parent(d))

UserHome == IF IsWin THEN HomeWin ELSE HomePosix

RECURSIVE Under(_, _)
Under(d, rel) == IF rel = <<>> THEN d ELSE Under(Child(d, Head(rel)), Tail(rel))

MapSeq(s, Op(_)) == [i \in 1..Len(s) |-> Op(s[i])]

\* FsDisc.user_xdg_loc
FsUserXdgLoc ==
    LET xdg == IF IsWin THEN XDG_config.win ELSE XDG_config.posix
        os_xdg_loc == env[xdg.var]
        AtHome(rel) == Under(UserHome, rel)
        base == IF os_xdg_loc = None THEN MapSeq(xdg.default, AtHome)
                ELSE os_xdg_loc[1]
        more == IF ~IsWin /\ xdg.dirs # None /\ env[xdg.dirs[1]] # None
                THEN env[xdg.dirs[1]][1] ELSE <<>>
        Proj(loc) == Child(loc, project)
    IN  MapSeq(base \o more, Proj)

\* FsDisc.root_xdg_loc
FsRootXdgLoc ==
    LET os_root == IF IsWin THEN XDG_config.win.root ELSE XDG_config.posix.root
        Proj(loc) == Child(loc, project)
    IN  IF os_root # <<>> THEN MapSeq(os_root, Proj) ELSE <<>>

\* FsDisc.improper_loc
FsImproperLoc == << Child(UserHome, project), Child(UserHome, "." \o project) >>

---------------------------------------------------------------------------
(* ConfDisc: config.py *)

Entry(grp, path) == [grp |-> grp, path |-> path]
Tag(grp, s) == [i \in 1..Len(s) |-> Entry(grp, s[i])]
Paths(es) == [i \in 1..Len(es) |-> es[i].path]
Grps(es) == [i \in 1..Len(es) |-> es[i].grp]

Ok(es) == [exc |-> "", es |-> es]
Raise(e) == [exc |-> e, es |-> <<>>]

\* for ext in CONF_EXT: for loc in base: (loc / cname).with_suffix(ext), loc.with_suffix(ext)
RECURSIVE ExtLoop(_, _, _)
ExtLoop(exts, base, cname) ==
    IF exts = <<>> THEN <<>>
    ELSE LET Pair(loc) == << WithSuffix(Child(loc, cname), Head(exts)),
                             WithSuffix(loc, Head(exts)) >>
         IN  Concat(MapSeq(base, Pair)) \o ExtLoop(Tail(exts), base, cname)

\* ConfDisc.user_xdg_loc
user_xdg_loc(cname) == ExtLoop(CONF_EXT, FsUserXdgLoc, cname)

\* ConfDisc.root_xdg_loc
root_xdg_loc(cname) == ExtLoop(CONF_EXT, FsRootXdgLoc, cname)

\* ConfDisc.improper_loc
improper_loc(cname) == ExtLoop(CONF_EXT, FsImproperLoc, cname)

\* ConfDisc.locations: 'shipped'; self.shipped / cname needs a Path
ShippedLoc(cname) ==
    LET Sh(ext) == WithSuffix(Child(shipped.v, cname), ext)
    IN  IF shipped.t = "none" THEN <<>> ELSE MapSeq(CONF_EXT, Sh)

\* the pedigree as FsDisc gives it, the starting directory not added
trace_ancestors_NoSelf(child_dir) ==
    LET pedigree == FsTrace(child_dir)
        Rc(d) == Child(d, "." \o project \o "rc")
        last == pedigree[Len(pedigree)]
        Setup(n, s) == IF is_file(ChildF(last, n, s)) THEN <<ChildF(last, n, s)>> ELSE <<>>
    IN  IF pedigree = <<>> THEN <<>>
        ELSE MapSeq(pedigree, Rc) \o Setup("pyproject", ".toml") \o Setup("setup", ".cfg")

\* ConfDisc.trace_ancestors
trace_ancestors(child_dir) ==
    LET ped0 == FsTrace(child_dir)
        pedigree == IF child_dir \notin SeqToSet(ped0) THEN <<child_dir>> \o ped0 ELSE ped0
        Rc(d) == Child(d, "." \o project \o "rc")
        last == pedigree[Len(pedigree)]
        Setup(n, s) == IF is_file(ChildF(last, n, s)) THEN <<ChildF(last, n, s)>> ELSE <<>>
    IN  MapSeq(pedigree, Rc) \o Setup("pyproject", ".toml") \o Setup("setup", ".cfg")

\* {**permargs, **self.permargs}: the construction's arguments win
Permargs_CtorWins(mode) == IF permargs # None THEN permargs ELSE mode

\* permargs = {**self.permargs, **permargs}
Permargs(mode) == IF mode # None THEN mode ELSE permargs

RcVar == PROJECT \o "RC"

TracePwd(tp) ==
    IF tp.t = "true" THEN trace_ancestors(Cwd)
    ELSE IF tp.t = "path" THEN trace_ancestors(tp.p)
    ELSE <<>>

\* ConfDisc.get_conf with the root locations put before the user locations
DomOrder_RootFirst(a) ==
    LET cname == IF a.cname = None THEN "config" ELSE a.cname[1]
    IN  (IF a.custom # None THEN <<Entry("custom", a.custom[1])>> ELSE <<>>)
        \o (IF env[RcVar] # None THEN <<Entry("rc", env[RcVar][1])>> ELSE <<>>)
        \o Tag("trace", TracePwd(a.trace_pwd))
        \o (IF a.improper THEN Tag("improper", improper_loc(cname)) ELSE <<>>)
        \o Tag("root", root_xdg_loc(cname))
        \o Tag("user", user_xdg_loc(cname))
        \o Tag("shipped", ShippedLoc(cname))

\* ConfDisc.get_conf with the improper locations always included
DomOrder_AlwaysImproper(a) ==
    LET cname == IF a.cname = None THEN "config" ELSE a.cname[1]
    IN  (IF a.custom # None THEN <<Entry("custom", a.custom[1])>> ELSE <<>>)
        \o (IF env[RcVar] # None THEN <<Entry("rc", env[RcVar][1])>> ELSE <<>>)
        \o Tag("trace", TracePwd(a.trace_pwd))
        \o Tag("improper", improper_loc(cname))
        \o Tag("user", user_xdg_loc(cname))
        \o Tag("root", root_xdg_loc(cname))
        \o Tag("shipped", ShippedLoc(cname))

\* ConfDisc.get_conf, before the accessibility filter
DomOrder(a) ==
    LET cname == IF a.cname = None THEN "config" ELSE a.cname[1]
    IN  (IF a.custom # None THEN <<Entry("custom", a.custom[1])>> ELSE <<>>)
        \o (IF env[RcVar] # None THEN <<Entry("rc", env[RcVar][1])>> ELSE <<>>)
        \o Tag("trace", TracePwd(a.trace_pwd))
        \o (IF a.improper THEN Tag("improper", improper_loc(cname)) ELSE <<>>)
        \o Tag("user", user_xdg_loc(cname))
        \o Tag("root", root_xdg_loc(cname))
        \o Tag("shipped", ShippedLoc(cname))

\* the result never reversed
Directed_Never(es, dom_start) == es

\* if dom_start: return dom_order; return list(reversed(dom_order))
Directed(es, dom_start) == IF dom_start THEN es ELSE Reverse(es)

FilterPerm(es, mode) == SelectSeq(es, LAMBDA e : fs_perm(e.path, mode))

\* ConfDisc.get_conf
get_conf(a) ==
    IF env[RcVar] # None /\ ~is_file(env[RcVar][1]) THEN Raise("FileNotFoundError")
    ELSE IF shipped.t = "list" THEN Raise("TypeError")
    ELSE LET dom_order == FilterPerm(DomOrder(a), Permargs(a.mode))
         IN  Ok(Directed(dom_order, a.dom_start))

\* FsDisc.get_loc on a FsDisc of base 'config': the locations are directories;
\* dom_order.extend(self.locations()['shipped']) needs a list
get_loc(a) ==
    LET dom_order ==
            (IF a.custom # None THEN <<Entry("custom", a.custom[1])>> ELSE <<>>)
            \o Tag("trace", IF a.trace_pwd.t = "true" THEN FsTrace(Cwd)
                            ELSE IF a.trace_pwd.t = "path" THEN FsTrace(a.trace_pwd.p)
                            ELSE <<>>)
            \o (IF a.improper THEN Tag("improper", FsImproperLoc) ELSE <<>>)
            \o Tag("user", FsUserXdgLoc)
            \o Tag("root", FsRootXdgLoc)
            \o Tag("shipped", shipped.v)
        kept == FilterPerm(dom_order, Permargs(a.mode))
    IN  IF shipped.t # "list" THEN Raise("TypeError")
        ELSE Ok(Directed(kept, a.dom_start))

\* private in str(x), for a private word without a path separator
SubPairs == { <<"venv", ".venv">>, <<"setup", "setuptools">> }
HasWord(w, x) ==
    LET Sub(t) == t = w \/ <<w, t>> \in SubPairs
    IN  (\E i \in 1..Len(x.parts) : Sub(x.parts[i])) \/ Sub(x.suffix)

\* '/etc' in str(x): a component starts with etc
EtcParts == {"etc"}
HasEtc(x) == \E i \in 1..Len(x.parts) : x.parts[i] \in EtcParts

\* pairs <<a, b>> of components where b starts with a and is longer
PrefixPairs == { <<"setup", "setuptools">> }

\* str(self.shipped) in str(x): the components of the shipped directory occur in x
InShipped(x) ==
    LET s == shipped.v.parts
        n == Len(s)
    IN  /\ shipped.t = "path"
        /\ \E i \in 0..(Len(x.parts) - n) :
              /\ \A j \in 1..(n - 1) : x.parts[i + j] = s[j]
              /\ n > 0 => (x.parts[i + n] = s[n] \/ <<s[n], x.parts[i + n]>> \in PrefixPairs)

\* private_locs without 'setup'
IsPrivate_NoSetup(x) ==
    \/ HasWord("site-packages", x) \/ HasWord("venv", x) \/ HasEtc(x)
    \/ HasWord("pyproject", x)
    \/ InShipped(x)

IsPrivate(x) ==
    \/ HasWord("site-packages", x) \/ HasWord("venv", x) \/ HasEtc(x)
    \/ HasWord("setup", x) \/ HasWord("pyproject", x)
    \/ InShipped(x)

\* ConfDisc.safe_config(ext, **kwargs)
safe_config(ext, a) ==
    LET r == get_conf([a EXCEPT !.mode = IF a.mode = None THEN Some(W_OK) ELSE a.mode])
        safe_paths == SelectSeq(r.es, LAMBDA e : ~IsPrivate(e.path))
    IN  IF r.exc # "" THEN r
        ELSE IF ext.t = "none" THEN Ok(safe_paths)
        ELSE Ok(SelectSeq(safe_paths, LAMBDA e : e.path.suffix \in SeqToSet(ext.v)))

---------------------------------------------------------------------------
(* File contents: what each format's parser makes of the file *)

Keys == {"a", "b"}
Vals == {1, 2}
EmptyMap == [k \in {} |-> 1]
Maps == UNION { [ks -> Vals] : ks \in SUBSET Keys }

\* yaml: "ok", "none" (safe_load returns None) or "err"; json: "ok", "eof" or "err";
\* toml, ini: "ok" or "err"; data: the mapping a successful parser returns;
\* proj: the project's table or section, when the file has one; near: the
\* content of a section whose name holds the project's name within another
\* word (as [tool:pytest] for the project test), when the file has one
Content(y, j, t, i, m) ==
    [yaml |-> y, json |-> j, toml |-> t, ini |-> i, data |-> m, proj |-> None, near |-> None]
YamlDoc(m) == Content("ok", "err", "err", "err", m)
JsonDoc(m) == Content("ok", "ok", "err", "err", m)
TomlDoc(m) == Content("err", "err", "ok", "err", m)
IniDoc(m) == Content("err", "err", "err", "ok", m)
Blank == Content("none", "eof", "ok", "ok", EmptyMap)
Garbage == Content("err", "err", "err", "err", EmptyMap)
WithProj(c, m) == [c EXCEPT !.proj = Some(m)]
WithNear(c, v) == [c EXCEPT !.near = Some(v)]
NearName(section) == "tool:py" \o section

---------------------------------------------------------------------------
(* config_io.py *)

POk(conf, tag) == [exc |-> "", conf |-> conf, tag |-> tag]
PRaise(e) == [exc |-> e, conf |-> EmptyMap, tag |-> "None"]
Tagged(r, tag) == IF r.exc = "" THEN [r EXCEPT !.tag = tag] ELSE r

\* open(config, 'r')
OpenRead(p) ==
    IF p \in dirs THEN "IsADirectoryError"
    ELSE IF p \notin DOMAIN fs THEN "FileNotFoundError"
    ELSE IF Region(p) \in perm.nr THEN "PermissionError"
    ELSE ""

parse_yaml(p) ==
    IF OpenRead(p) # "" THEN PRaise(OpenRead(p))
    ELSE IF fs[p].yaml = "err" THEN PRaise("YAMLError")
    ELSE IF fs[p].yaml = "none" THEN PRaise("BadConf")
    ELSE POk(fs[p].data, "None")

parse_json(p) ==
    IF OpenRead(p) # "" THEN PRaise(OpenRead(p))
    ELSE IF fs[p].json = "err" THEN PRaise("Json5Exception")
    ELSE IF fs[p].json = "eof" THEN POk(EmptyMap, "None")
    ELSE POk(fs[p].data, "None")

\* conf.get(section, {}) if section else conf
parse_toml(p, section) ==
    IF OpenRead(p) # "" THEN PRaise(OpenRead(p))
    ELSE IF fs[p].toml = "err" THEN PRaise("TomlDecodeError")
    ELSE IF section = None THEN POk(fs[p].data, "None")
    ELSE IF fs[p].proj = None THEN POk(EmptyMap, "None")
    ELSE POk(fs[p].proj[1], "None")

\* the parser always holds the section DEFAULT
WithDefault(m) == [k \in DOMAIN m \cup {"DEFAULT"} |-> IF k \in DOMAIN m THEN m[k] ELSE 0]

\* ConfigParser.read skips a file it cannot open; with a section: the section
\* itself, and under its own name every section whose name holds the section's
parse_ini(p, section) ==
    IF OpenRead(p) # ""
    THEN (IF section = None THEN POk(WithDefault(EmptyMap), "None") ELSE POk(EmptyMap, "None"))
    ELSE IF fs[p].ini = "err" THEN PRaise("configparser.Error")
    ELSE IF section = None THEN POk(WithDefault(fs[p].data), "None")
    ELSE LET own == IF fs[p].proj = None THEN EmptyMap ELSE fs[p].proj[1]
         IN  IF fs[p].near = None THEN POk(own, "None")
             ELSE POk(own @@ (NearName(section[1]) :> fs[p].near[1]), "None")

ParserErrors == {"YAMLError", "Json5Exception", "TomlDecodeError", "configparser.Error"}
Formats == {"yaml", "json", "toml", "ini"}

\* the chain without the BadConf of an empty yaml document
AutoParse_YamlOnly(p) ==
    LET y == parse_yaml(p)
        j == parse_json(p)
        t == parse_toml(p, None)
        i == parse_ini(p, None)
    IN  IF y.exc # "YAMLError" THEN Tagged(y, "yaml")
        ELSE IF j.exc # "Json5Exception" THEN Tagged(j, "json")
        ELSE IF t.exc # "TomlDecodeError" THEN Tagged(t, "toml")
        ELSE IF i.exc # "configparser.Error" THEN Tagged(i, "ini")
        ELSE PRaise("BadConf")

\* parse_rc without form: yaml, json, toml, ini in turn
AutoParse(p) ==
    LET y == parse_yaml(p)
        j == parse_json(p)
        t == parse_toml(p, None)
        i == parse_ini(p, None)
    IN  IF y.exc \notin {"BadConf", "YAMLError"} THEN Tagged(y, "yaml")
        ELSE IF j.exc # "Json5Exception" THEN Tagged(j, "json")
        ELSE IF t.exc # "TomlDecodeError" THEN Tagged(t, "toml")
        ELSE IF i.exc # "configparser.Error" THEN Tagged(i, "ini")
        ELSE PRaise("BadConf")

\* a form whose parser fails, followed by the chain of all parsers
FormParse_ThenAuto(p, form) ==
    LET r == IF "yaml" \in form THEN Tagged(parse_yaml(p), "yaml")
             ELSE IF "json" \in form THEN Tagged(parse_json(p), "json")
             ELSE IF "toml" \in form THEN Tagged(parse_toml(p, None), "toml")
             ELSE Tagged(parse_ini(p, None), "ini")
    IN  IF r.exc \in ParserErrors THEN AutoParse(p) ELSE r

\* parse_rc with a form that names a format
FormParse(p, form) ==
    LET r == IF "yaml" \in form THEN Tagged(parse_yaml(p), "yaml")
             ELSE IF "json" \in form THEN Tagged(parse_json(p), "json")
             ELSE IF "toml" \in form THEN Tagged(parse_toml(p, None), "toml")
             ELSE Tagged(parse_ini(p, None), "ini")
    IN  IF r.exc \in ParserErrors THEN PRaise("BadConf") ELSE r

\* parse_rc(config, project=project, form=form); form: the formats it names
parse_rc(p, form) ==
    IF NameIs(p, "setup", ".cfg") THEN parse_ini(p, Some(project))
    ELSE IF NameIs(p, "pyproject", ".toml") THEN parse_toml(p, Some(project))
    ELSE IF form \cap Formats # {} THEN FormParse(p, form)
    ELSE AutoParse(p)

\* what a format's dump leaves in the file
Written(fmt, m) ==
    LET body == [k \in DOMAIN m \ {"DEFAULT"} |-> m[k]]
    IN  IF fmt = "yaml" THEN (IF m = EmptyMap THEN JsonDoc(m) ELSE YamlDoc(m))
        ELSE IF fmt = "json" THEN JsonDoc(m)
        ELSE IF fmt = "toml" THEN (IF m = EmptyMap THEN Blank ELSE TomlDoc(m))
        ELSE (IF body = EmptyMap THEN Blank ELSE IniDoc(body))

\* ext_dict
ExtFormat(suffix) ==
    IF suffix \in {".conf", ".cfg", ".ini"} THEN "ini"
    ELSE IF suffix = ".toml" THEN "toml"
    ELSE IF suffix = ".json" THEN "json"
    ELSE ""

\* handles = ext_dict.get(config.suffix) or ext_dict.get(f'.{form}'), else yaml
Handles(p, form) ==
    IF ExtFormat(p.suffix) # "" THEN ExtFormat(p.suffix)
    ELSE IF form # None /\ ExtFormat("." \o form[1]) # "" THEN ExtFormat("." \o form[1])
    ELSE "yaml"

\* handles[0](config)
ParseAs(fmt, p) ==
    IF fmt = "ini" THEN parse_ini(p, None)
    ELSE IF fmt = "toml" THEN parse_toml(p, None)
    ELSE IF fmt = "json" THEN parse_json(p)
    ELSE parse_yaml(p)

\* {**data, **old_data}: the old values win
Merge_OldWins(old, new) ==
    [k \in DOMAIN old \cup DOMAIN new |-> IF k \in DOMAIN old THEN old[k] ELSE new[k]]

\* {**old_data, **data}
Merge(old, new) ==
    [k \in DOMAIN old \cup DOMAIN new |-> IF k \in DOMAIN new THEN new[k] ELSE old[k]]

Ancestors(p) == { P(SubSeq(p.parts, 1, n)) : n \in 0..(Len(p.parts) - 1) }

\* config.parent.mkdir(parents=True, exist_ok=True)
MkdirExc(d) ==
    IF d \in dirs THEN ""
    ELSE IF d \in DOMAIN fs THEN "FileExistsError"
    ELSE IF Ancestors(d) \cap DOMAIN fs # {} THEN "NotADirectoryError"
    ELSE IF Region(d) \in perm.nw THEN "PermissionError"
    ELSE ""

\* open(config, 'w')
OpenWrite(p) ==
    IF p \in dirs THEN "IsADirectoryError"
    ELSE IF Region(p) \in perm.nw THEN "PermissionError"
    ELSE ""

\* the value returned is a bool
WOut(exc, val, f, d) == [exc |-> exc, val |-> [t |-> "bool", b |-> val], fs |-> f, dirs |-> d]

\* write_rc that does not look at force='fail'
write_rc_NoFail(data, p, form, force) ==
    LET fmt == Handles(p, form)
        old == IF is_file(p) /\ force = "update" THEN ParseAs(fmt, p) ELSE POk(EmptyMap, "None")
        made == dirs \cup Ancestors(p)
    IN  IF old.exc # "" THEN WOut(old.exc, FALSE, fs, dirs)
        ELSE IF MkdirExc(Parent(p)) # "" THEN WOut(MkdirExc(Parent(p)), FALSE, fs, dirs)
        ELSE IF OpenWrite(p) # "" THEN WOut(OpenWrite(p), FALSE, fs, made)
        ELSE WOut("", TRUE,
                  [q \in DOMAIN fs \cup {p} |->
                      IF q = p THEN Written(fmt, Merge(old.conf, data)) ELSE fs[q]],
                  made)

\* write_rc(data, config, form, force): the outcome and the filesystem after it.
\* A directory that mkdir creates lies in a writable region, so that the open
\* after it fails only where mkdir had nothing to create.
write_rc(data, p, form, force) ==
    LET fmt == Handles(p, form)
        old == IF is_file(p) /\ force = "update" THEN ParseAs(fmt, p) ELSE POk(EmptyMap, "None")
        made == dirs \cup Ancestors(p)
    IN  IF is_file(p) /\ force = "fail" THEN WOut("", FALSE, fs, dirs)
        ELSE IF old.exc # "" THEN WOut(old.exc, FALSE, fs, dirs)
        ELSE IF MkdirExc(Parent(p)) # "" THEN WOut(MkdirExc(Parent(p)), FALSE, fs, dirs)
        ELSE IF OpenWrite(p) # "" THEN WOut(OpenWrite(p), FALSE, fs, made)
        ELSE WOut("", TRUE,
                  [q \in DOMAIN fs \cup {p} |->
                      IF q = p THEN Written(fmt, Merge(old.conf, data)) ELSE fs[q]],
                  made)

---------------------------------------------------------------------------
(* ConfDisc: reading and writing *)

FsErrors == {"PermissionError", "FileNotFoundError", "IsADirectoryError"}

\* avail_confs[config] = value: a key keeps the place of its first assignment
Put(avail, path, conf, tag) ==
    IF \E i \in 1..Len(avail) : avail[i].path = path
    THEN [i \in 1..Len(avail) |->
             IF avail[i].path = path THEN [path |-> path, conf |-> conf, tag |-> tag]
             ELSE avail[i]]
    ELSE Append(avail, [path |-> path, conf |-> conf, tag |-> tag])

\* for config in self.get_conf(**kwargs): try parse_rc, pass on a filesystem error
RECURSIVE ReadAll(_, _)
\* the loop without its try
ReadAll_NoTry(paths, avail) ==
    IF paths = <<>> THEN [exc |-> "", avail |-> avail]
    ELSE LET r == parse_rc(Head(paths), {})
         IN  IF r.exc # "" THEN [exc |-> r.exc, avail |-> avail]
             ELSE ReadAll(Tail(paths), Put(avail, Head(paths), r.conf, r.tag))

ReadAll(paths, avail) ==
    IF paths = <<>> THEN [exc |-> "", avail |-> avail]
    ELSE LET r == parse_rc(Head(paths), {})
         IN  IF r.exc \in FsErrors THEN ReadAll(Tail(paths), avail)
             ELSE IF r.exc # "" THEN [exc |-> r.exc, avail |-> avail]
             ELSE ReadAll(Tail(paths), Put(avail, Head(paths), r.conf, r.tag))

\* super_config.update(config), config the pair parse_rc returned: dict.update
\* takes the pair as a sequence of key-value pairs, each of length 2
UpdateExc(conf, tag) ==
    IF Cardinality(DOMAIN conf) # 2 THEN "ValueError"
    ELSE IF tag = "None" THEN "TypeError"
    ELSE "ValueError"

ROut(exc, avail, flat) == [exc |-> exc, avail |-> avail, flat |-> flat]

\* ConfDisc.read_config(flatten, **kwargs)
read_config(flatten, a) ==
    LET g == get_conf([a EXCEPT !.mode = IF a.mode = None THEN Some(R_OK) ELSE a.mode])
        r == ReadAll(Paths(g.es), <<>>)
        last == r.avail[Len(r.avail)]
    IN  IF g.exc # "" THEN ROut(g.exc, <<>>, EmptyMap)
        ELSE IF r.exc # "" THEN ROut(r.exc, <<>>, EmptyMap)
        ELSE IF ~flatten THEN ROut("", r.avail, EmptyMap)
        ELSE IF r.avail = <<>> THEN ROut("", <<>>, EmptyMap)
        ELSE ROut(UpdateExc(last.conf, last.tag), <<>>, EmptyMap)

\* the loop without its try: the first location decides
TryWrite_NoTry(config_l, data, force) ==
    IF config_l = <<>> THEN WOut("", FALSE, fs, dirs) @@ [at |-> None]
    ELSE write_rc(data, Head(config_l), None, force) @@ [at |-> Some(Head(config_l))]

\* for config in config_l: try: return write_rc(...) except filesystem error: continue
RECURSIVE TryWrite(_, _, _)
TryWrite(config_l, data, force) ==
    IF config_l = <<>> THEN WOut("", FALSE, fs, dirs) @@ [at |-> None]
    ELSE LET w == write_rc(data, Head(config_l), None, force)
         IN  IF w.exc \in FsErrors THEN TryWrite(Tail(config_l), data, force)
             ELSE w @@ [at |-> Some(Head(config_l))]

\* ConfDisc.write_config(data, force, **kwargs): safe_config(ext=kwargs.get('ext'), **kwargs)
\* is given ext twice when kwargs holds ext
write_config(data, force, ext, a) ==
    LET s == safe_config([t |-> "none", v |-> <<>>], a)
    IN  IF ext.t # "none" THEN WOut("TypeError", FALSE, fs, dirs) @@ [at |-> None]
        ELSE IF s.exc # "" THEN WOut(s.exc, FALSE, fs, dirs) @@ [at |-> None]
        ELSE TryWrite(Reverse(Paths(s.es)), data, force)

---------------------------------------------------------------------------
(* The machines and the objects the model starts from *)

RcGood == F(<<"srv", "rc", "testrc">>, ".yml")
RcBad == F(<<"srv", "rc", "gone">>, ".yml")
CustomFile == F(<<"mnt", "c", "custom">>, ".yml")
AltConfigHome == P(<<"opt", "cfg">>)
AltConfigDir == P(<<"opt", ".venv", "xdg">>)
AltAppData == P(<<"Users", "u", "AppData", "Local">>)

EnvOf(home, cdirs, appdata, rc) ==
    [v \in {"XDG_CONFIG_HOME", "XDG_CONFIG_DIRS", "APPDATA", RcVar} |->
        IF v = "XDG_CONFIG_HOME" THEN home
        ELSE IF v = "XDG_CONFIG_DIRS" THEN cdirs
        ELSE IF v = "APPDATA" THEN appdata
        ELSE rc]

Machines ==
    { [platform |-> "linux", env |-> EnvOf(h, d, None, None)] :
        h \in {None, Some(<<AltConfigHome>>)}, d \in {None, Some(<<AltConfigDir>>)} }
    \cup { [platform |-> "linux", env |-> EnvOf(None, None, None, Some(rc))] :
        rc \in {RcGood, RcBad} }
    \cup { [platform |-> "win32", env |-> EnvOf(None, None, Some(<<AltAppData>>), None)] }

Files(ps, c) == [p \in ps |-> c]
InitPy(d) == ChildF(d, "__init__", ".py")
UserConfig == F(<<"home", "u", ".config", "test", "config">>, ".yml")
RootConfig == F(<<"etc", "xdg", "test", "config">>, ".yml")

\* a package with its project root; a bare directory tree; a flat project
FsPackage ==
    Files({InitPy(Cwd), InitPy(PkgDir), ChildF(ProjDir, "setup", ".cfg"),
           ChildF(ProjDir, "pyproject", ".toml"), Child(Cwd, ".testrc"),
           UserConfig, RootConfig, RcGood}, YamlDoc(EmptyMap))
FsBare == Files({UserConfig, RcGood}, YamlDoc(EmptyMap))
FsFlat ==
    Files({InitPy(ProjDir), InitPy(PkgDir), ChildF(ProjDir, "setup", ".py"), RcGood},
          YamlDoc(EmptyMap))

AllAccess == [nr |-> {}, nw |-> {}]
PermChoices ==
    { AllAccess,
      [nr |-> {"home", "Users"}, nw |-> {"etc", "w"}],
      [nr |-> {"opt", "mnt"}, nw |-> {}] }

Disks ==
    { [fs |-> FsPackage, perm |-> pm] : pm \in PermChoices }
    \cup { [fs |-> f, perm |-> AllAccess] : f \in {FsBare, FsFlat} }

DirsOf(f) == UNION { { P(SubSeq(p.parts, 1, n)) : n \in 0..(Len(p.parts) - 1) } : p \in DOMAIN f }

NoCall == [op |-> "none"]

\* ConfDisc('test'), and ConfDisc('test', mode='w', shipped=__file__) as the tests build it
Constructions == { [shipped |-> None, mode |-> None],
                   [shipped |-> Some(ShippedFile), mode |-> Some(W_OK)] }

\* ConfDisc(project, shipped=..., mode=...) on some machine
Init ==
    /\ \E m \in Machines : platform = m.platform /\ env = m.env
    /\ \E d \in Disks : fs = d.fs /\ perm = d.perm /\ dirs = DirsOf(d.fs) \cup Ancestors(Cwd) \cup {Cwd}
    /\ \E c \in Constructions : shipped = InitShipped(c.shipped) /\ permargs = c.mode
    /\ pc = "idle"
    /\ ret = NoCall
    /\ writes = 0

---------------------------------------------------------------------------
(* Calls *)

TraceChoices == { [t |-> "none", p |-> Root], [t |-> "true", p |-> Root],
                  [t |-> "path", p |-> PkgDir] }

Kwargs ==
    { a \in [dom_start : BOOLEAN, improper : BOOLEAN,
             custom : {None, Some(CustomFile)},
             trace_pwd : TraceChoices,
             cname : {None, Some("rc")},
             mode : {None, Some(W_OK), Some(R_OK)}] :
        a.cname # None => (a.custom = None /\ a.mode = None /\ a.trace_pwd.t = "none") }

ExtChoices == { [t |-> "none", v |-> <<>>], [t |-> "str", v |-> <<".yml">>],
                [t |-> "list", v |-> <<".toml", ".conf">>] }

Called(op, a, r) ==
    [op |-> op, a |-> a, exc |-> r.exc, es |-> r.es]

Unchanged == UNCHANGED <<platform, env, fs, dirs, perm, shipped, permargs, writes>>

GetConf ==
    /\ pc = "idle"
    /\ \E a \in Kwargs : ret' = Called("get_conf", a, get_conf(a))
    /\ pc' = "done"
    /\ Unchanged

GetLoc ==
    /\ pc = "idle"
    /\ \E a \in Kwargs : a.cname = None /\ ret' = Called("get_loc", a, get_loc(a))
    /\ pc' = "done"
    /\ Unchanged

SafeConfig ==
    /\ pc = "idle"
    /\ \E a \in Kwargs, ext \in ExtChoices :
          /\ ext.t # "none" => (~a.improper /\ a.mode = None)
          /\ ret' = Called("safe_config", a, safe_config(ext, a)) @@ [ext |-> ext]
    /\ pc' = "done"
    /\ Unchanged

\* conf_disc.shipped = None, or a directory
SetShipped ==
    /\ pc = "idle"
    /\ \E v \in { [t |-> "none", v |-> Root], [t |-> "path", v |-> PkgDir] } :
          shipped # v /\ shipped' = v
    /\ UNCHANGED <<platform, env, fs, dirs, perm, permargs, pc, ret, writes>>

\* the caller takes the result
Return ==
    /\ pc = "done"
    /\ pc' = "idle"
    /\ ret' = NoCall
    /\ Unchanged

Next == GetConf \/ GetLoc \/ SafeConfig \/ SetShipped \/ Return

Spec == Init /\ [][Next]_vars

---------------------------------------------------------------------------
(* Reading: configuration files of every kind on the disk *)

A1 == [k \in {"a"} |-> 1]
A2B2 == [k \in {"a", "b"} |-> 2]
B1 == [k \in {"b"} |-> 1]

SetupCfg == ChildF(ProjDir, "setup", ".cfg")
PyProject == ChildF(ProjDir, "pyproject", ".toml")
CwdRc == Child(Cwd, ".testrc")

Markers == Files({InitPy(Cwd), InitPy(PkgDir)}, Blank)

\* every candidate holds a configuration
FsLayered ==
    Markers @@ (CwdRc :> YamlDoc(A1)) @@ (UserConfig :> YamlDoc(A2B2))
    @@ (RootConfig :> TomlDoc(B1)) @@ (SetupCfg :> WithProj(IniDoc(B1), A2B2))
    @@ (PyProject :> TomlDoc(A1)) @@ (RcGood :> JsonDoc(B1)) @@ (CustomFile :> IniDoc(A1))

\* a candidate that no parser accepts, after one that is fine
FsBroken ==
    Markers @@ (CwdRc :> YamlDoc(A1)) @@ (UserConfig :> Garbage)
    @@ (SetupCfg :> IniDoc(A1)) @@ (RcGood :> YamlDoc(A1))

\* the custom file is missing and a candidate is a directory
FsHoles == Markers @@ (CwdRc :> YamlDoc(A2B2)) @@ (SetupCfg :> Blank) @@ (RcGood :> Blank)

\* a working directory that is no package, in a project
FsPlain ==
    (CwdRc :> YamlDoc(A1)) @@ (SetupCfg :> WithNear(WithProj(IniDoc(B1), A1), 2))
    @@ (UserConfig :> YamlDoc(B1))

ReadDisks ==
    { [fs |-> FsLayered, perm |-> pm, extra |-> {}] :
        pm \in {AllAccess, [nr |-> {"home", "w"}, nw |-> {}]} }
    \cup { [fs |-> FsBroken, perm |-> AllAccess, extra |-> {}],
           [fs |-> FsPlain, perm |-> AllAccess, extra |-> {}],
           [fs |-> FsHoles, perm |-> AllAccess, extra |-> {UserConfig}] }

\* a file of which each parser makes what it will
Probes ==
    { Content(y, j, t, i, A1) :
        y \in {"ok", "none", "err"}, j \in {"ok", "eof", "err"},
        t \in {"ok", "err"}, i \in {"ok", "err"} }

ReadMachines ==
    { [platform |-> "linux", env |-> EnvOf(None, None, None, rc)] :
        rc \in {None, Some(RcGood), Some(RcBad)} }

InitRead ==
    /\ \/ /\ \E m \in ReadMachines : platform = m.platform /\ env = m.env
          /\ \E d \in ReadDisks :
                /\ fs = d.fs /\ perm = d.perm
                /\ dirs = DirsOf(d.fs) \cup Ancestors(Cwd) \cup {Cwd} \cup d.extra
          /\ \E c \in Constructions : shipped = InitShipped(c.shipped) /\ permargs = c.mode
       \/ /\ platform = "linux" /\ env = EnvOf(None, None, None, None)
          /\ \E c \in Probes : fs = Files({CustomFile, SetupCfg, PyProject}, c)
          /\ perm = AllAccess
          /\ dirs = Ancestors(CustomFile) \cup Ancestors(Cwd) \cup {Cwd}
          /\ shipped = InitShipped(None) /\ permargs = None
    /\ pc = "idle"
    /\ ret = NoCall
    /\ writes = 0

FormChoices == { {}, {"yaml"}, {"json"}, {"toml"}, {"ini"}, {"json", "toml"}, {"xml"} }
ParsePaths == { CustomFile, UserConfig, SetupCfg, PyProject, Cwd }

ParseRc ==
    /\ pc = "idle"
    /\ \E p \in ParsePaths, form \in FormChoices :
          ret' = [op |-> "parse_rc", p |-> p, form |-> form] @@ parse_rc(p, form)
    /\ pc' = "done"
    /\ Unchanged

ReadConfig ==
    /\ pc = "idle"
    /\ \E a \in Kwargs, flatten \in BOOLEAN :
          /\ a.cname = None /\ ~a.improper /\ a.mode # Some(R_OK)
          /\ ret' = [op |-> "read_config", a |-> a, flatten |-> flatten] @@ read_config(flatten, a)
    /\ pc' = "done"
    /\ Unchanged

NextRead == ParseRc \/ ReadConfig \/ SetShipped \/ Return

SpecRead == InitRead /\ [][NextRead]_vars

---------------------------------------------------------------------------
(* Writing *)

MaxWrites == 1

WriteDisks ==
    { [fs |-> FsLayered, perm |-> pm, extra |-> {}] :
        pm \in {AllAccess, [nr |-> {}, nw |-> {"home"}]} }
    \cup { [fs |-> FsHoles, perm |-> AllAccess, extra |-> {UserConfig}] }

\* ConfDisc('test', mode='w', shipped=__file__), as the tests build it
InitWrite ==
    /\ platform = "linux" /\ env = EnvOf(None, None, None, None)
    /\ \E d \in WriteDisks :
          /\ fs = d.fs /\ perm = d.perm
          /\ dirs = DirsOf(d.fs) \cup Ancestors(Cwd) \cup {Cwd} \cup d.extra
    /\ shipped = InitShipped(Some(ShippedFile)) /\ permargs = Some(W_OK)
    /\ pc = "idle"
    /\ ret = NoCall
    /\ writes = 0

DataChoices == {EmptyMap, A1, B1}
ForceChoices == {"fail", "update", "overwrite"}

KwargsW ==
    [dom_start : BOOLEAN, improper : BOOLEAN,
     custom : {None, Some(CustomFile), Some(Cwd)},
     trace_pwd : { [t |-> "none", p |-> Root], [t |-> "true", p |-> Root] },
     cname : {None}, mode : {None}]

WriteTargets == { CustomFile, UserConfig, F(<<"mnt", "c", "new">>, ".toml"),
                  F(<<"home", "u", "x", "new">>, ".conf") }

WriteRc ==
    /\ pc = "idle" /\ writes < MaxWrites
    /\ \E data \in DataChoices, p \in WriteTargets, force \in ForceChoices,
          form \in {None, Some("toml"), Some("ini")} :
          \E w \in {write_rc(data, p, form, force)} :
             /\ ret' = [op |-> "write_rc", data |-> data, p |-> p, form |-> form,
                        force |-> force, exc |-> w.exc, val |-> w.val, before |-> fs]
             /\ fs' = w.fs /\ dirs' = w.dirs
    /\ writes' = writes + 1
    /\ pc' = "done"
    /\ UNCHANGED <<platform, env, perm, shipped, permargs>>

WriteConfig ==
    /\ pc = "idle" /\ writes < MaxWrites
    /\ \E data \in DataChoices, force \in ForceChoices, a \in KwargsW, ext \in ExtChoices :
          /\ ext.t # "none" => (a.custom = None /\ ~a.improper)
          /\ \E w \in {write_config(data, force, ext, a)} :
                /\ ret' = [op |-> "write_config", data |-> data, a |-> a, ext |-> ext,
                           force |-> force, exc |-> w.exc, val |-> w.val, at |-> w.at,
                           before |-> fs]
                /\ fs' = w.fs /\ dirs' = w.dirs
    /\ writes' = writes + 1
    /\ pc' = "done"
    /\ UNCHANGED <<platform, env, perm, shipped, permargs>>

NextWrite == WriteRc \/ WriteConfig \/ SetShipped \/ Return

SpecWrite == InitWrite /\ [][NextWrite]_vars

---------------------------------------------------------------------------
(* FsDisc.trace_ancestors, one turn of its loop at a time *)

\* a package inside a package: the project root has a package above it
FsNested ==
    Files({InitPy(Cwd), InitPy(ProjDir), ChildF(PkgDir, "setup", ".py")}, YamlDoc(EmptyMap))

TraceDisks == {FsPackage, FsBare, FsFlat, FsNested}
StartDirs == { Root, ProjDir, PkgDir, Cwd, Child(Child(Cwd, "deep"), "er"), HomePosix }

InitTrace ==
    /\ platform = "linux" /\ env = EnvOf(None, None, None, None)
    /\ \E f \in TraceDisks : fs = f /\ dirs = DirsOf(f) \cup Ancestors(Cwd) \cup {Cwd}
    /\ perm = AllAccess
    /\ \E c \in Constructions : shipped = InitShipped(c.shipped) /\ permargs = c.mode
    /\ pc = "idle"
    /\ ret = NoCall
    /\ writes = 0

\* pedigree: List[Path] = []
TraceAncestors ==
    /\ pc = "idle"
    /\ \E d \in StartDirs :
          ret' = [op |-> "trace_ancestors", exc |-> "", start |-> d, child_dir |-> d,
                  pedigree |-> <<>>]
    /\ pc' = "loop"
    /\ Unchanged

\* the loop without its break
TraceStep_NoBreak ==
    /\ pc = "loop" /\ ret.op = "trace_ancestors"
    /\ ~is_mount(ret.child_dir)
    /\ LET d == ret.child_dir
           p1 == IF is_file(ChildF(d, "__init__", ".py")) THEN Append(ret.pedigree, d)
                 ELSE ret.pedigree
           setup == is_file(ChildF(d, "setup", ".cfg")) \/ is_file(ChildF(d, "setup", ".py"))
       IN  /\ ret' = [ret EXCEPT !.pedigree = IF setup THEN Append(p1, d) ELSE p1,
                                 !.child_dir = Parent(d)]
           /\ pc' = "loop"
    /\ Unchanged

\* while not is_mount(child_dir): one turn
TraceStep ==
    /\ pc = "loop" /\ ret.op = "trace_ancestors"
    /\ ~is_mount(ret.child_dir)
    /\ LET d == ret.child_dir
           p1 == IF is_file(ChildF(d, "__init__", ".py")) THEN Append(ret.pedigree, d)
                 ELSE ret.pedigree
           setup == is_file(ChildF(d, "setup", ".cfg")) \/ is_file(ChildF(d, "setup", ".py"))
       IN  IF setup
           THEN ret' = [ret EXCEPT !.pedigree = Append(p1, d)] /\ pc' = "done"
           ELSE ret' = [ret EXCEPT !.pedigree = p1, !.child_dir = Parent(d)] /\ pc' = "loop"
    /\ Unchanged

\* the loop ends at a mount point: return pedigree
TraceExit ==
    /\ pc = "loop" /\ ret.op = "trace_ancestors"
    /\ is_mount(ret.child_dir)
    /\ pc' = "done"
    /\ UNCHANGED ret
    /\ Unchanged

NextTrace == TraceAncestors \/ TraceStep \/ TraceExit \/ Return

\* a call that is in its loop goes on
SpecTrace ==
    InitTrace /\ [][NextTrace]_vars /\ WF_vars(TraceStep) /\ WF_vars(TraceExit)

---------------------------------------------------------------------------
(* Properties of the discovery *)

Returned(op) == pc = "done" /\ ret.op = op /\ ret.exc = ""

Rank(g) ==
    CASE g = "custom" -> 1 [] g = "rc" -> 2 [] g = "trace" -> 3 [] g = "improper" -> 4
      [] g = "user" -> 5 [] g = "root" -> 6 [] g = "shipped" -> 7

\* s is t with some entries removed, the others in t's order
RECURSIVE IsSubSeq(_, _)
IsSubSeq(s, t) ==
    IF s = <<>> THEN TRUE
    ELSE IF t = <<>> THEN FALSE
    ELSE IF Head(s) = Head(t) THEN IsSubSeq(Tail(s), Tail(t))
    ELSE IsSubSeq(s, Tail(t))

\* the mode in force: the call's when given, else the construction's
InForce(a) == IF a.mode # None THEN a.mode ELSE permargs

\* C1: with dom_start=True the paths get_conf returns are ordered custom, <PROJECT>RC,
\* ancestors, improper, user XDG, root XDG, shipped: a path of an earlier group
\* comes before every path of a later group.
C1_Precedence ==
    (Returned("get_conf") /\ ret.a.dom_start) =>
        \A i, j \in 1..Len(ret.es) :
            Rank(ret.es[i].grp) < Rank(ret.es[j].grp) => i < j

C1_AllGroups ==
    /\ Returned("get_conf") /\ ret.a.dom_start
    /\ {ret.es[i].grp : i \in 1..Len(ret.es)}
         = {"custom", "rc", "trace", "improper", "user", "root", "shipped"}

\* C2: get_conf(dom_start=False) is the reverse of get_conf(dom_start=True) for the
\* same arguments, environment and filesystem (and so is get_loc).
C2_Reverse ==
    /\ Returned("get_conf") =>
          LET o == get_conf([ret.a EXCEPT !.dom_start = ~ret.a.dom_start])
          IN  o.exc = "" /\ ret.es = Reverse(o.es)
    /\ Returned("get_loc") =>
          LET o == get_loc([ret.a EXCEPT !.dom_start = ~ret.a.dom_start])
          IN  o.exc = "" /\ ret.es = Reverse(o.es)

C2_ReversedCall ==
    /\ Returned("get_conf") /\ ~ret.a.dom_start
    /\ Len(ret.es) >= 2
    /\ ret.es[1] # ret.es[Len(ret.es)]

\* C3: get_conf returns a location of the improper group only when improper=True;
\* with improper=True every accessible improper candidate is returned.
C3_Improper ==
    Returned("get_conf") =>
        LET cname == IF ret.a.cname = None THEN "config" ELSE ret.a.cname[1]
            got == {ret.es[i] : i \in 1..Len(ret.es)}
        IN  /\ ~ret.a.improper => \A e \in got : e.grp # "improper"
            /\ ret.a.improper =>
                  \A p \in SeqToSet(improper_loc(cname)) :
                      fs_perm(p, InForce(ret.a)) => Entry("improper", p) \in got

C3_ImproperReturned ==
    /\ Returned("get_conf") /\ ret.a.improper
    /\ \E i \in 1..Len(ret.es) : ret.es[i].grp = "improper"

\* C4: get_conf(custom=p) has p, unchecked, as its most dominant entry, for every p.
C4_CustomUnchecked ==
    (Returned("get_conf") /\ ret.a.custom # None) =>
        /\ ret.es # <<>>
        /\ ret.a.dom_start => ret.es[1].path = ret.a.custom[1]
        /\ ~ret.a.dom_start => ret.es[Len(ret.es)].path = ret.a.custom[1]

---------------------------------------------------------------------------
(* Properties of reading *)

Done(op) == pc = "done" /\ ret.op = op

\* the formats in the order parse_rc tries them, and what fails to parse
ChainOrder == <<"yaml", "json", "toml", "ini">>
ParseFails(c, fmt) ==
    CASE fmt = "yaml" -> c.yaml # "ok"
      [] fmt = "json" -> c.json = "err"
      [] fmt = "toml" -> c.toml = "err"
      [] fmt = "ini" -> c.ini = "err"
Parsed(c, fmt) ==
    CASE fmt = "yaml" -> c.data
      [] fmt = "json" -> IF c.json = "eof" THEN EmptyMap ELSE c.data
      [] fmt = "toml" -> c.data
      [] fmt = "ini" -> [k \in DOMAIN c.data \cup {"DEFAULT"} |->
                            IF k \in DOMAIN c.data THEN c.data[k] ELSE 0]

AutoCall ==
    /\ Done("parse_rc") /\ ret.form = {}
    /\ ~NameIs(ret.p, "setup", ".cfg") /\ ~NameIs(ret.p, "pyproject", ".toml")

\* C6: without a form, parse_rc of a file it can open (not setup.cfg or
\* pyproject.toml) returns the result and the tag of the first of yaml, json,
\* toml, ini that parses the file, raises BadConf exactly when none of the four
\* does, and lets no parser's own exception out.
C6_AutoDetect ==
    AutoCall =>
        /\ ret.exc \notin ParserErrors
        /\ OpenRead(ret.p) = "" =>
              LET c == fs[ret.p]
                  ok == { i \in 1..4 : ~ParseFails(c, ChainOrder[i]) }
                  first == CHOOSE i \in ok : \A j \in ok : i <= j
              IN  /\ ret.exc \in {"", "BadConf"}
                  /\ ret.exc = "BadConf" <=> ok = {}
                  /\ ok # {} => /\ ret.tag = ChainOrder[first]
                                /\ ret.conf = Parsed(c, ChainOrder[first])

C6_FellThrough ==
    /\ AutoCall /\ OpenRead(ret.p) = ""
    /\ fs[ret.p].yaml = "none" /\ fs[ret.p].json = "err"
    /\ ret.exc = "" /\ ret.tag \in {"toml", "ini"}

\* the candidates of a call of read_config, most dominant first or last as asked
Candidates(a) ==
    Paths(get_conf([a EXCEPT !.mode = IF a.mode = None THEN Some(R_OK) ELSE a.mode]).es)

BadRc == env[RcVar] # None /\ ~is_file(env[RcVar][1])

\* C7 as stated: read_config never raises PermissionError, FileNotFoundError or
\* IsADirectoryError.
C7_NeverFsError ==
    Done("read_config") => ret.exc \notin FsErrors

\* C7, amended: read_config raises FileNotFoundError when <PROJECT>RC names
\* something that is not a regular file, and no filesystem error otherwise; a
\* candidate that cannot be opened is left out of the result (setup.cfg apart,
\* which is then read as empty), and every candidate that can be opened is read.
C7_Unavailable ==
    Done("read_config") =>
        /\ ret.exc \in FsErrors <=> BadRc
        /\ BadRc => ret.exc = "FileNotFoundError"
        /\ (ret.exc = "" /\ ~ret.flatten) =>
              LET read == { ret.avail[i].path : i \in 1..Len(ret.avail) }
              IN  \A p \in SeqToSet(Candidates(ret.a)) :
                     /\ OpenRead(p) = "" => p \in read
                     /\ (OpenRead(p) # "" /\ ~NameIs(p, "setup", ".cfg")) => p \notin read

C7_Skipped ==
    /\ Done("read_config") /\ ret.exc = "" /\ ~ret.flatten
    /\ ret.avail # <<>>
    /\ \E p \in SeqToSet(Candidates(ret.a)) :
          /\ OpenRead(p) # ""
          /\ \A i \in 1..Len(ret.avail) : ret.avail[i].path # p

\* the configurations read_config finds, most dominant first
Dominance(flatten_ret) ==
    LET av == read_config(FALSE, flatten_ret.a).avail
    IN  IF flatten_ret.a.dom_start THEN av ELSE Reverse(av)

\* C8: read_config(flatten=True) returns one merged configuration in which every
\* key has the value of the most dominant file that defines it, whatever the
\* other arguments.
C8_FlattenDominant ==
    (Done("read_config") /\ ret.flatten /\ read_config(FALSE, ret.a).exc = "") =>
        LET dom == Dominance(ret)
            keys == UNION { DOMAIN dom[i].conf : i \in 1..Len(dom) }
            Top(k) == CHOOSE i \in 1..Len(dom) :
                         /\ k \in DOMAIN dom[i].conf
                         /\ \A j \in 1..Len(dom) : k \in DOMAIN dom[j].conf => i <= j
        IN  /\ ret.exc = ""
            /\ DOMAIN ret.flat = keys
            /\ \A k \in keys : ret.flat[k] = dom[Top(k)].conf[k]

---------------------------------------------------------------------------
(* Properties of writing *)

\* C9: when write_config succeeds with force='update', it returns the path of
\* the file it wrote, and with ext that file has the extension asked for.
C9_ReturnsPath ==
    (Done("write_config") /\ ret.force = "update" /\ ret.exc = "" /\ ret.val.b) =>
        /\ ret.val.t = "path"
        /\ ret.ext.t # "none" => ret.at[1].suffix \in SeqToSet(ret.ext.v)

---------------------------------------------------------------------------
(* Properties of the safe locations *)

PrivateWords == {"site-packages", "venv", ".venv", "etc", "setup", "setuptools", "pyproject"}

\* the path names a private place or lies in the shipped directory
Private(x) ==
    \/ \E i \in 1..Len(x.parts) : x.parts[i] \in PrivateWords
    \/ /\ shipped.t = "path"
       /\ Len(x.parts) >= Len(shipped.v.parts)
       /\ SubSeq(x.parts, 1, Len(shipped.v.parts)) = shipped.v.parts

WithMode(a, m) == [a EXCEPT !.mode = IF a.mode = None THEN Some(m) ELSE a.mode]

\* C10 as stated: safe_config returns no private location, and its result is a
\* subsequence of get_conf called with the same arguments.
C10_SameArguments ==
    Returned("safe_config") =>
        /\ \A i \in 1..Len(ret.es) : ~Private(ret.es[i].path)
        /\ get_conf(ret.a).exc = "" /\ IsSubSeq(ret.es, get_conf(ret.a).es)

\* C10, amended: safe_config returns no private location (so never setup.cfg,
\* pyproject.toml or a shipped default), only paths of the extensions asked
\* for, and its result is a subsequence of get_conf called with the same
\* arguments and the mode 2 where the call gives none.
C10_SafeWritable ==
    Returned("safe_config") =>
        /\ \A i \in 1..Len(ret.es) :
              /\ ~Private(ret.es[i].path)
              /\ ret.es[i].path \notin {SetupCfg, PyProject}
              /\ ret.es[i].grp # "shipped"
              /\ ret.ext.t # "none" => ret.es[i].path.suffix \in SeqToSet(ret.ext.v)
        /\ IsSubSeq(ret.es, get_conf(WithMode(ret.a, W_OK)).es)

C10_PrivateDropped ==
    /\ Returned("safe_config") /\ ret.es # <<>>
    /\ \E e \in SeqToSet(get_conf(WithMode(ret.a, W_OK)).es) : e.path = SetupCfg
    /\ \E e \in SeqToSet(get_conf(WithMode(ret.a, W_OK)).es) : e.grp = "shipped"

\* the path is ~/<project> or ~/.<project>, or lies under one of them
UnderImproper(x) ==
    \E d \in SeqToSet(FsImproperLoc) :
        /\ Len(x.parts) >= Len(d.parts)
        /\ SubSeq(x.parts, 1, Len(d.parts)) = d.parts

\* C11: safe_config drops the improper locations: whatever the arguments, no
\* candidate under ~/<project> or ~/.<project> is in its result.
C11_NoImproper ==
    Returned("safe_config") => \A i \in 1..Len(ret.es) : ~UnderImproper(ret.es[i].path)

---------------------------------------------------------------------------
(* Properties of the ancestors *)

Traced(a) == a.trace_pwd.t # "none"
StartDir(a) == IF a.trace_pwd.t = "true" THEN Cwd ELSE a.trace_pwd.p
RcIn(d) == Child(d, "." \o project \o "rc")

\* the directories of the .<project>rc entries among the ancestors' entries of es
RcDirs(es) ==
    LET rcs == SelectSeq(es, LAMBDA e : e.grp = "trace" /\ NameIs(e.path, "." \o project \o "rc", ""))
    IN  [i \in 1..Len(rcs) |-> Parent(rcs[i].path)]

\* d is dir or a directory above it
AtOrAbove(d, dir) ==
    /\ Len(d.parts) <= Len(dir.parts)
    /\ SubSeq(dir.parts, 1, Len(d.parts)) = d.parts

\* C12: with trace_pwd the starting directory is its own 0th ancestor. Its
\* .<project>rc is a location of get_conf when it passes fs_perm, of safe_config
\* when it is writable and not private, and is read by read_config when it is
\* readable and can be opened, whether or not the directory holds __init__.py;
\* the ancestors' .<project>rc locations run from the starting directory upward.
C12_ZerothAncestor ==
    (Done("read_config") /\ Traced(ret.a)) =>
        LET a == [ret.a EXCEPT !.dom_start = TRUE]
            rc == RcIn(StartDir(a))
            g == get_conf(a)
            s == safe_config([t |-> "none", v |-> <<>>], a)
            ds == RcDirs(g.es)
        IN  /\ (g.exc = "" /\ fs_perm(rc, InForce(a))) =>
                  /\ Entry("trace", rc) \in SeqToSet(g.es)
                  /\ ds[1] = StartDir(a)
            /\ g.exc = "" =>
                  \A i, j \in 1..Len(ds) :
                      i < j => /\ Len(ds[i].parts) >= Len(ds[j].parts)
                               /\ AtOrAbove(ds[j], ds[i])
                               /\ AtOrAbove(ds[i], StartDir(a))
            /\ (s.exc = "" /\ fs_perm(rc, WithMode(a, W_OK).mode) /\ ~Private(rc)) =>
                  Entry("trace", rc) \in SeqToSet(s.es)
            /\ (ret.exc = "" /\ ~ret.flatten /\ fs_perm(rc, WithMode(a, R_OK).mode)
                  /\ OpenRead(rc) = "") =>
                  \E i \in 1..Len(ret.avail) : ret.avail[i].path = rc

C12_NoPackage ==
    /\ Done("read_config") /\ Traced(ret.a) /\ ret.exc = "" /\ ~ret.flatten
    /\ ~is_file(ChildF(StartDir(ret.a), "__init__", ".py"))
    /\ \E i \in 1..Len(ret.avail) : ret.avail[i].path = RcIn(StartDir(ret.a))
    /\ Len(RcDirs(get_conf([ret.a EXCEPT !.dom_start = TRUE]).es)) >= 2
    /\ ~Private(RcIn(StartDir(ret.a)))

---------------------------------------------------------------------------
(* Properties of write_rc *)

Wrote(op) == Done(op) /\ ret.exc = "" /\ ret.val.b
Existed == ret.p \in DOMAIN ret.before

\* the format an extension names, yaml's extensions among them; "" for none
ByExtension(suffix) ==
    IF suffix \in {".conf", ".cfg", ".ini"} THEN "ini"
    ELSE IF suffix = ".toml" THEN "toml"
    ELSE IF suffix = ".json" THEN "json"
    ELSE IF suffix \in {".yml", ".yaml"} THEN "yaml"
    ELSE ""

\* the format of the extension, else the format of form, else yaml
Guessed(p, form) ==
    IF ByExtension(p.suffix) # "" THEN ByExtension(p.suffix)
    ELSE IF form # None /\ ByExtension("." \o form[1]) # "" THEN ByExtension("." \o form[1])
    ELSE "yaml"

\* C13: write_rc writes a file in the format of its extension (.conf, .cfg, .ini,
\* .toml, .json, .yml, .yaml) whatever form is given, in the format of form only
\* when the extension names none, else in yaml; on update the old content is
\* read with the parser of the same format.
C13_FormatByExtension ==
    Wrote("write_rc") =>
        /\ ~ParseFails(fs[ret.p], Guessed(ret.p, ret.form))
        /\ (Existed /\ ret.force = "update") =>
              ~ParseFails(ret.before[ret.p], Guessed(ret.p, ret.form))

\* a call of write_rc: the step from the caller's state to the returned call
WriteRcStep == pc = "idle" /\ pc' = "done" /\ ret'.op = "write_rc"

\* C14: when the target exists and force is 'fail', write_rc returns False and
\* changes nothing: no file's content changes and no directory is created. When
\* the target does not exist and nothing is raised, write_rc returns True and
\* the file holds the data, whatever force is.
C14_FailChangesNothing ==
    [][ WriteRcStep =>
          /\ (ret'.p \in DOMAIN fs /\ ret'.force = "fail") =>
                (ret'.exc = "" /\ ~ret'.val.b /\ fs' = fs /\ dirs' = dirs)
          /\ (ret'.p \notin DOMAIN fs /\ ret'.exc = "") =>
                /\ ret'.val.b
                /\ ret'.p \in DOMAIN fs'
                /\ fs'[ret'.p].data = ret'.data
                /\ \A q \in DOMAIN fs : fs'[q] = fs[q] ]_vars

C14_Refused ==
    /\ Done("write_rc") /\ Existed /\ ret.force = "fail"
    /\ ret.data # EmptyMap /\ ret.data # ret.before[ret.p].data
    /\ ~ret.val.b

\* C15: a successful write_rc with force='update' on an existing file leaves the
\* old content merged with the data: every key of the data has the new value,
\* every old key absent from the data keeps its old value; with
\* force='overwrite' the file holds exactly the data.
C15_MergeOnWrite ==
    (Wrote("write_rc") /\ Existed) =>
        LET old == ret.before[ret.p].data
            now == fs[ret.p].data
        IN  /\ ret.force = "update" =>
                  /\ DOMAIN now = DOMAIN old \cup DOMAIN ret.data
                  /\ \A k \in DOMAIN ret.data : now[k] = ret.data[k]
                  /\ \A k \in DOMAIN old \ DOMAIN ret.data : now[k] = old[k]
            /\ ret.force = "overwrite" => now = ret.data

C15_Merged ==
    /\ Wrote("write_rc") /\ Existed /\ ret.force = "update"
    /\ \E k \in DOMAIN ret.data : k \in DOMAIN ret.before[ret.p].data
                                  /\ ret.before[ret.p].data[k] # ret.data[k]
    /\ DOMAIN ret.before[ret.p].data \ DOMAIN ret.data # {}

---------------------------------------------------------------------------
(* Properties of parse_rc with a form, and of the project's files *)

FormCall ==
    /\ Done("parse_rc") /\ ret.form # {} /\ OpenRead(ret.p) = ""
    /\ ~NameIs(ret.p, "setup", ".cfg") /\ ~NameIs(ret.p, "pyproject", ".toml")

\* C16 as stated: with a form, parse_rc returns the tag of a format named in
\* form or raises BadConf, and never falls back to another format.
C16_OnlyForm ==
    FormCall =>
        /\ ret.exc \in {"", "BadConf"}
        /\ ret.exc = "" => ret.tag \in ret.form

\* C16, amended: with a form that names one of yaml, json, toml, ini, parse_rc
\* parses the file in the first of these (in this order) that form names, and
\* returns its result and tag or raises BadConf; a form that names none of them
\* is ignored.
C16_NamedFormat ==
    (FormCall /\ ret.form \cap Formats # {}) =>
        LET named == { i \in 1..4 : ChainOrder[i] \in ret.form }
            fmt == ChainOrder[CHOOSE i \in named : \A j \in named : i <= j]
        IN  /\ ret.exc \in {"", "BadConf"}
            /\ ret.exc = "BadConf" <=> ParseFails(fs[ret.p], fmt)
            /\ ret.exc = "" => (ret.tag = fmt /\ ret.conf = Parsed(fs[ret.p], fmt))

C16_FormRefused ==
    /\ FormCall /\ ret.form \cap Formats # {}
    /\ ret.exc = "BadConf"
    /\ \E f \in Formats \ ret.form : ~ParseFails(fs[ret.p], f)

ProjectFileCall ==
    /\ Done("parse_rc") /\ OpenRead(ret.p) = ""
    /\ NameIs(ret.p, "setup", ".cfg") \/ NameIs(ret.p, "pyproject", ".toml")

\* C17: for setup.cfg and pyproject.toml parse_rc returns only what the file
\* declares for the project, an empty mapping when it declares nothing, with
\* the tag None, whatever form is; setup.cfg is read as ini and pyproject.toml
\* as toml, and no other parser is tried.
C17_ProjectSection ==
    ProjectFileCall =>
        LET c == fs[ret.p]
            fmt == IF NameIs(ret.p, "setup", ".cfg") THEN "ini" ELSE "toml"
        IN  /\ ret.exc # "" <=> ParseFails(c, fmt)
            /\ ret.exc = "" =>
                  /\ ret.tag = "None"
                  /\ ret.conf = IF c.proj = None THEN EmptyMap ELSE c.proj[1]

---------------------------------------------------------------------------
(* Properties of FsDisc.trace_ancestors *)

\* the k-th directory above d; d itself for k = 0
Above(d, k) == P(SubSeq(d.parts, 1, Len(d.parts) - k))
HasInit(d) == ChildF(d, "__init__", ".py") \in DOMAIN fs
HasSetup(d) == ChildF(d, "setup", ".cfg") \in DOMAIN fs \/ ChildF(d, "setup", ".py") \in DOMAIN fs

\* how far above d the walk stops: at the first mount point or project root
StopAt(d) ==
    CHOOSE k \in 0..Len(d.parts) :
        /\ Above(d, k) = Root \/ HasSetup(Above(d, k))
        /\ \A j \in 0..(k - 1) : ~(Above(d, j) = Root \/ HasSetup(Above(d, j)))

\* the pedigree the walk returns
WalkResult(ped, start) ==
    LET stop == StopAt(start)
        top == Above(start, stop)
        Height(i) == Len(start.parts) - Len(ped[i].parts)
    IN  /\ \A i \in 1..Len(ped) :
              /\ Height(i) \in 0..stop /\ ped[i] = Above(start, Height(i))
              /\ Height(i) < stop => HasInit(ped[i])
              /\ \A j \in 1..Len(ped) : i < j => Height(i) <= Height(j)
        /\ \A k \in 0..(stop - 1) : HasInit(Above(start, k)) => Above(start, k) \in SeqToSet(ped)
        /\ IF top = Root THEN top \notin SeqToSet(ped)
           ELSE ped # <<>> /\ ped[Len(ped)] = top

\* C18: FsDisc.trace_ancestors terminates for every starting directory: it
\* walks upward a parent at a time, collects the directories with __init__.py,
\* stops at the first directory with setup.cfg or setup.py (the last entry) or
\* at the first mount point (not inspected), and returns nothing from above
\* where it stopped.
C18_WalkEnds ==
    /\ [](Done("trace_ancestors") =>
            /\ WalkResult(ret.pedigree, ret.start)
            /\ ret.pedigree = FsTrace(ret.start))
    /\ (pc = "loop") ~> (pc = "done")

C18_ReachedRoot ==
    /\ Done("trace_ancestors")
    /\ StopAt(ret.start) >= 1 /\ Above(ret.start, StopAt(ret.start)) # Root
    /\ Len(ret.pedigree) >= 2
    /\ HasInit(Above(ret.start, StopAt(ret.start) + 1))

---------------------------------------------------------------------------
(* Properties of write_config *)

\* a call of write_config without ext: the step from the caller's state to the
\* returned call
WriteConfigStep ==
    /\ pc = "idle" /\ pc' = "done" /\ ret'.op = "write_config"
    /\ ret'.ext.t = "none" /\ shipped.t # "list"

\* the safe locations in the order write_config goes through them
Attempts(a) == Reverse(safe_config([t |-> "none", v |-> <<>>], a).es)

\* write_rc at this location fails with an error write_config catches
Fails(p, data, force) == write_rc(data, p, None, force).exc \in FsErrors

\* the first of the attempts that does not so fail; 0 when every attempt does
FirstOk(at, data, force) ==
    LET ok == { i \in 1..Len(at) : ~Fails(at[i].path, data, force) }
    IN  IF ok = {} THEN 0 ELSE CHOOSE i \in ok : \A j \in ok : i <= j

---------------------------------------------------------------------------
(* Properties of the candidate lists *)

\* the candidate files of one base directory
Under1(loc, cname) ==
    { WithSuffix(Child(loc, cname), CONF_EXT[k]) : k \in 1..Len(CONF_EXT) }
      \cup { WithSuffix(loc, CONF_EXT[k]) : k \in 1..Len(CONF_EXT) }

\* every candidate of an earlier base directory precedes every candidate of a
\* later one
DirectoryMajor(list, base, cname) ==
    \A i, j \in 1..Len(base) :
        (i < j /\ base[i] # base[j]) =>
            \A m, n \in 1..Len(list) :
                (list[m] \in Under1(base[i], cname) /\ list[n] \in Under1(base[j], cname))
                    => m < n

\* C20: in the lists of user_xdg_loc, root_xdg_loc and improper_loc, every
\* candidate file under a base directory precedes every candidate file under
\* the base directories that come after it, whatever the extensions.
C20_FirstDirectoryDominant ==
    \A cname \in {"config"} :
        /\ DirectoryMajor(user_xdg_loc(cname), FsUserXdgLoc, cname)
        /\ DirectoryMajor(root_xdg_loc(cname), FsRootXdgLoc, cname)
        /\ DirectoryMajor(improper_loc(cname), FsImproperLoc, cname)

---------------------------------------------------------------------------
(* Properties of the ancestors' lists *)

\* no element stands twice in the list
EachOnce(s) == \A i, j \in 1..Len(s) : s[i] = s[j] => i = j

\* C21: the list FsDisc.trace_ancestors returns holds each directory at most
\* once, and the list ConfDisc.trace_ancestors makes of it holds each candidate
\* file at most once, on every layout.
C21_NoDuplicates ==
    Done("trace_ancestors") =>
        /\ EachOnce(ret.pedigree)
        /\ EachOnce(trace_ancestors(ret.start))

====
